---- MODULE Spec2Model ----
(***************************************************************************)
(* Model of bookcover_wallpaper.layout.MasonryLayout: the plan chosen by   *)
(* _calculate_optimal_layout and the greedy shortest-column placement loop *)
(* of calculate_layout.                                                    *)
(***************************************************************************)
EXTENDS Integers, Sequences, FiniteSets, TLC

\* Largest number of covers handed to one calculate_layout call.
MaxBooks == 60

\* Canvas sizes (width, height) a MasonryLayout object is constructed with:
\* the canvases of the tests, a thumbnail and two canvases smaller than a gap.
Canvases == <<<<1920, 1080>>, <<800, 600>>, <<40, 30>>, <<1, 19>>, <<1, 1>>>>

\* Gaps between covers.
Gaps == {0, 4, 7}

\* Aspect ratios (w, h) of a cover.
AspectRatios == {<<2, 3>>, <<3, 2>>}

\* The cover lists of length n: distinct paths (as in the tests) and a list
\* in which the same two paths repeat.
CoverLists(n) == {[i \in 1..n |-> i], [i \in 1..n |-> 1 + (i % 2)]}

VARIABLES
    width, height, gap, aspect_ratio,   \* fields of the MasonryLayout object
    pc,                                 \* "idle", "loop", "returned", "raised"
    cover_paths,                        \* argument of the running/last call
    num_columns, cover_width, cover_height,   \* the plan of the call
    column_heights,                     \* column index (from 0) -> height
    next_cover,                         \* position of the for loop in cover_paths
    shortest_col,                       \* column chosen by the last iteration
    layout,                             \* placements appended so far
    result,                             \* value returned by the last call
    assigned,                           \* history: the column of each placement
    first_result                        \* caller: the value the previous call
                                        \* on the same list returned, if any

layout_vars == <<width, height, gap, aspect_ratio, pc, cover_paths,
                 num_columns, cover_width, cover_height, column_heights,
                 next_cover, shortest_col, layout, result, assigned,
                 first_result>>

VARIABLES
    layout_info, output_size,           \* arguments of create_wallpaper
    file_status,                        \* environment: path -> state of the file
    cw_pc,                              \* "idle", "loop", "returned"
    cw_next,                            \* position of the loop in layout_info
    canvas,                             \* the canvas: its size and the pastes
    warnings                            \* paths reported as skipped

compose_vars == <<layout_info, output_size, file_status, cw_pc, cw_next,
                  canvas, warnings>>

VARIABLES
    source, arg_given,                  \* arguments of _generate_wallpaper
    fetched,                            \* environment: the books of the source
    run_pc,                             \* position in _generate_wallpaper
    books,                              \* local books
    run_cover_paths,                    \* local cover_paths
    invoked,                            \* collaborators called, in order
    errors                              \* error messages echoed

run_vars == <<source, arg_given, fetched, run_pc, books, run_cover_paths,
              invoked, errors>>

VARIABLES
    dl_books,                           \* argument of download_covers
    task_state,                         \* per get_cover task: its position
    task_result,                        \* per get_cover task: its outcome
    dl_pc,                              \* position in download_covers
    dl_next,                            \* position of the filter loop
    dl_result                           \* books_with_covers

download_vars == <<dl_books, task_state, task_result, dl_pc, dl_next,
                   dl_result>>

VARIABLES
    src_kind,                           \* which get_books is called
    src_limit,                          \* its argument limit
    src_exists,                         \* environment: the directory/file exists
    src_input,                          \* environment: entries, rows or results
    src_second,                         \* environment: Open Library results
    src_pc,                             \* "idle", "called", "returned"
    src_result                          \* the list get_books returned

source_vars == <<src_kind, src_limit, src_exists, src_input, src_second,
                 src_pc, src_result>>

VARIABLES
    crop_size,                          \* image.size of the argument
    crop_ratio,                         \* argument aspect_ratio
    crop_pc,                            \* "idle", "called", "returned"
    crop_box                            \* the part of the image returned

crop_vars == <<crop_size, crop_ratio, crop_pc, crop_box>>

\* The variables of the other components, which the layout engine never
\* touches.
outside_layout == <<compose_vars, run_vars, download_vars, source_vars,
                    crop_vars>>

outside_compose == <<layout_vars, run_vars, download_vars, source_vars,
                     crop_vars>>

outside_run == <<layout_vars, compose_vars, download_vars, source_vars,
                 crop_vars>>

outside_download == <<layout_vars, compose_vars, run_vars, source_vars,
                      crop_vars>>

outside_source == <<layout_vars, compose_vars, run_vars, download_vars,
                    crop_vars>>

outside_crop == <<layout_vars, compose_vars, run_vars, download_vars,
                  source_vars>>

vars == <<layout_vars, outside_layout>>

\* create_wallpaper is not running.
ComposeIdle ==
    /\ layout_info = <<>>
    /\ output_size = <<0, 0>>
    /\ file_status = <<>>
    /\ cw_pc = "idle"
    /\ cw_next = 1
    /\ canvas = [size |-> <<0, 0>>, pasted |-> <<>>]
    /\ warnings = <<>>

\* _generate_wallpaper is not running.
RunIdle ==
    /\ source = "local"
    /\ arg_given = FALSE
    /\ fetched = <<>>
    /\ run_pc = "idle"
    /\ books = <<>>
    /\ run_cover_paths = <<>>
    /\ invoked = <<>>
    /\ errors = <<>>

\* download_covers is not running.
DownloadIdle ==
    /\ dl_books = <<>>
    /\ task_state = <<>>
    /\ task_result = <<>>
    /\ dl_pc = "idle"
    /\ dl_next = 1
    /\ dl_result = <<>>

\* No get_books call is running.
SourceIdle ==
    /\ src_kind = "local"
    /\ src_limit = 0
    /\ src_exists = FALSE
    /\ src_input = <<>>
    /\ src_second = <<>>
    /\ src_pc = "idle"
    /\ src_result = <<>>

\* crop_to_aspect_ratio is not running.
CropIdle ==
    /\ crop_size = <<0, 0>>
    /\ crop_ratio = <<2, 3>>
    /\ crop_pc = "idle"
    /\ crop_box = <<0, 0, 0, 0>>

self_fields == <<width, height, gap, aspect_ratio>>

Max(a, b) == IF a >= b THEN a ELSE b
Min(a, b) == IF a <= b THEN a ELSE b
Abs(a) == IF a >= 0 THEN a ELSE -a

\* Python a // b: floor of the exact quotient, for either sign of b (b # 0).
PyFloorDiv(a, b) == IF b > 0 THEN a \div b ELSE (-a) \div (-b)

\* Python int(a / b) for b > 0: the quotient truncated toward zero.
IntTrunc(a, b) == IF a >= 0 THEN a \div b ELSE -((-a) \div b)

\* The row table lost: three rows whatever the count.
TargetRowsFixed(num_books) == 3

\* The target-row table.
TargetRows(num_books) ==
    IF num_books <= 12 THEN 3
    ELSE IF num_books <= 20 THEN 4
    ELSE IF num_books <= 30 THEN 5
    ELSE IF num_books <= 40 THEN 6
    ELSE IF num_books <= 50 THEN 7
    ELSE IF num_books <= 60 THEN 8
    ELSE IF num_books <= 70 THEN 9
    ELSE 10

\* target_rows * 0.8 is a double: for 3, 6 and 7 rows the product rounds to
\* the double just above the exact value (2.4000000000000004, ...), so a
\* quotient num_books / product that is exactly an integer comes out just
\* below it and int() drops it by one (12 / 2.4000000000000004 gives 4).
ProductRoundsUp(target_rows) == target_rows \in {3, 6, 7}

\* max(1, int(num_books / (target_rows * 0.8)))
MaxColumnsForBooks(num_books, target_rows) ==
    LET exact == (5 * num_books) \div (4 * target_rows)
        q == IF ProductRoundsUp(target_rows)
                /\ (5 * num_books) % (4 * target_rows) = 0
                /\ num_books > 0
             THEN exact - 1 ELSE exact
    IN Max(1, q)

\* The gaps between and around the rows forgotten.
FitHeightNoGaps(h, g, rows) == PyFloorDiv(h, rows)

\* Cover height such that `rows` covers and rows + 1 gaps fit in the height.
FitHeight(h, g, rows) == PyFloorDiv(h - ((rows + 1) * g), rows)

\* The two components of the aspect ratio exchanged.
WidthFromHeightInverted(ch, ar) == IntTrunc(ch * ar[2], ar[1])

\* int(cover_height * aspect_ratio[0] / aspect_ratio[1])
WidthFromHeight(ch, ar) == IntTrunc(ch * ar[1], ar[2])

\* Python round(a / b) for b > 0: to the nearest integer, halves to even.
RoundHalfEven(a, b) ==
    LET q == a \div b
        r == a - q * b
    IN  IF 2 * r < b THEN q
        ELSE IF 2 * r > b THEN q + 1
        ELSE IF q % 2 = 0 THEN q ELSE q + 1

\* The height rounded instead of truncated.
HeightFromWidthRounded(cw, ar) == RoundHalfEven(cw * ar[2], ar[1])

\* int(cover_width * aspect_ratio[1] / aspect_ratio[0])
HeightFromWidth(cw, ar) == IntTrunc(cw * ar[2], ar[1])

\* Only the gaps between the columns subtracted, not the two margins.
SnapWidthInnerGaps(w, g, nc) == PyFloorDiv(w - (nc - 1) * g, nc)

\* (self.width - (num_columns + 1) * self.gap) // num_columns
SnapWidth(w, g, nc) == PyFloorDiv(w - (nc + 1) * g, nc)

\* Only the gaps between the columns counted, not the two margins.
TooWideInnerGaps(w, g, nc, cw) == (nc * cw) + ((nc - 1) * g) > w

\* total_width > self.width
TooWide(w, g, nc, cw) == (nc * cw) + ((nc + 1) * g) > w

\* (num_books + num_columns - 1) // num_columns
MaxBooksPerColumn(num_books, nc) == (num_books + nc - 1) \div nc

Raised == [raised |-> TRUE, num_columns |-> 0, cover_width |-> 0,
           cover_height |-> 0]

\* _calculate_optimal_layout on an object with fields (w, h, g, ar). A
\* division by zero is reported in the field raised.
CalculateOptimalLayout(w, h, g, ar, num_books) ==
    LET target_rows == TargetRows(num_books)
        target_cover_height == FitHeight(h, g, target_rows)
        target_cover_width == WidthFromHeight(target_cover_height, ar)
    IN  IF target_cover_width + g = 0 THEN Raised
        ELSE
        LET max_columns == Max(1, PyFloorDiv(w + g, target_cover_width + g))
            max_columns_for_books == MaxColumnsForBooks(num_books, target_rows)
            nc == Min(max_columns, max_columns_for_books)
            max_books_per_column == MaxBooksPerColumn(num_books, nc)
        IN  IF max_books_per_column = 0 THEN Raised
            ELSE
            LET ch1 == FitHeight(h, g, max_books_per_column)
                cw1 == WidthFromHeight(ch1, ar)
                cw2 == SnapWidth(w, g, nc)
            IN  IF TooWide(w, g, nc, cw1)
                THEN [raised |-> FALSE, num_columns |-> nc,
                      cover_width |-> cw2,
                      cover_height |-> HeightFromWidth(cw2, ar)]
                ELSE [raised |-> FALSE, num_columns |-> nc,
                      cover_width |-> cw1, cover_height |-> ch1]

\* The scan replaces the best column on a tie: the last index of a minimum.
RECURSIVE MinScanLastTie(_, _, _, _)
MinScanLastTie(heights, n, i, best) ==
    IF i >= n THEN best
    ELSE MinScanLastTie(heights, n, i + 1,
                        IF heights[i] <= heights[best] THEN i ELSE best)

\* min(range(n), key=lambda i: heights[i]): the first index of a minimum.
RECURSIVE MinScan(_, _, _, _)
MinScan(heights, n, i, best) ==
    IF i >= n THEN best
    ELSE MinScan(heights, n, i + 1,
                 IF heights[i] < heights[best] THEN i ELSE best)

ShortestCol(heights, n) == MinScan(heights, n, 1, 0)

\* The columns start at the canvas edge: the top margin forgotten.
InitialColumnHeightsZero(nc) == [c \in 0..(nc - 1) |-> 0]

\* The column heights kept on the object: a later call with as many columns
\* goes on from the heights the earlier call left.
InitialColumnHeightsKept(nc) ==
    IF DOMAIN column_heights = 0..(nc - 1) THEN column_heights
    ELSE [c \in 0..(nc - 1) |-> gap]

\* column_heights = [self.gap] * num_columns
InitialColumnHeights(nc) == [c \in 0..(nc - 1) |-> gap]

\* The caller holds no earlier return value.
NoResult == [called |-> FALSE, value |-> <<>>]

\* MasonryLayout(width, height, gap, aspect_ratio)
Init ==
    /\ \E k \in 1..Len(Canvases) :
          width = Canvases[k][1] /\ height = Canvases[k][2]
    /\ gap \in Gaps
    /\ aspect_ratio \in AspectRatios
    /\ pc = "idle"
    /\ cover_paths = <<>>
    /\ num_columns = 0
    /\ cover_width = 0
    /\ cover_height = 0
    /\ column_heights = <<>>
    /\ next_cover = 1
    /\ shortest_col = 0
    /\ layout = <<>>
    /\ result = <<>>
    /\ assigned = <<>>
    /\ first_result = NoResult
    /\ ComposeIdle
    /\ RunIdle
    /\ DownloadIdle
    /\ SourceIdle
    /\ CropIdle

\* The plan computed before the empty list is looked at.
EarlyReturnAfterPlan ==
    LET plan == CalculateOptimalLayout(width, height, gap, aspect_ratio, 0)
    IN  /\ cover_paths' = <<>>
        /\ pc' = IF plan.raised THEN "raised" ELSE "returned"
        /\ result' = <<>>
        /\ num_columns' = plan.num_columns
        /\ cover_width' = plan.cover_width
        /\ cover_height' = plan.cover_height
        /\ column_heights' = <<>>
        /\ next_cover' = 1
        /\ shortest_col' = 0
        /\ layout' = <<>>
        /\ assigned' = <<>>

\* if not cover_paths: return []
EarlyReturn ==
    /\ cover_paths' = <<>>
    /\ pc' = "returned"
    /\ result' = <<>>
    /\ num_columns' = 0
    /\ cover_width' = 0
    /\ cover_height' = 0
    /\ column_heights' = <<>>
    /\ next_cover' = 1
    /\ shortest_col' = 0
    /\ layout' = <<>>
    /\ assigned' = <<>>

\* calculate_layout(paths), paths not empty, up to the head of the for loop:
\* the plan and the initial column heights, or the error
\* _calculate_optimal_layout raises.
EnterLoop(paths) ==
    LET plan == CalculateOptimalLayout(width, height, gap, aspect_ratio,
                                       Len(paths))
    IN  /\ cover_paths' = paths
        /\ next_cover' = 1
        /\ shortest_col' = 0
        /\ layout' = <<>>
        /\ assigned' = <<>>
        /\ result' = <<>>
        /\ num_columns' = plan.num_columns
        /\ cover_width' = plan.cover_width
        /\ cover_height' = plan.cover_height
        /\ IF plan.raised
           THEN /\ pc' = "raised"
                /\ column_heights' = <<>>
           ELSE /\ pc' = "loop"
                /\ column_heights' = InitialColumnHeights(plan.num_columns)

\* calculate_layout([]).
CallEmpty ==
    /\ pc # "loop"
    /\ EarlyReturn
    /\ first_result' = NoResult
    /\ UNCHANGED <<self_fields, outside_layout>>

\* calculate_layout(paths) on a non-empty list.
Call ==
    /\ pc # "loop"
    /\ \E n \in 1..MaxBooks : \E paths \in CoverLists(n) : EnterLoop(paths)
    /\ first_result' = NoResult
    /\ UNCHANGED <<self_fields, outside_layout>>

\* The caller keeps the returned value and calls calculate_layout on the
\* same object with the same list again.
CallAgain ==
    /\ pc = "returned"
    /\ first_result' = [called |-> TRUE, value |-> result]
    /\ IF cover_paths = <<>> THEN EarlyReturn ELSE EnterLoop(cover_paths)
    /\ UNCHANGED <<self_fields, outside_layout>>

\* The column grows by the cover only, the gap below it is forgotten.
PlaceCoverNoGap ==
    /\ pc = "loop"
    /\ next_cover <= Len(cover_paths)
    /\ LET col == ShortestCol(column_heights, num_columns)
           x == gap + col * (cover_width + gap)
           y == column_heights[col]
       IN  /\ shortest_col' = col
           /\ assigned' = Append(assigned, col)
           /\ layout' = Append(layout,
                  [path |-> cover_paths[next_cover], x |-> x, y |-> y,
                   w |-> cover_width, h |-> cover_height])
           /\ column_heights' = [column_heights EXCEPT
                                   ![col] = @ + cover_height]
    /\ next_cover' = next_cover + 1
    /\ UNCHANGED <<self_fields, pc, cover_paths, num_columns, cover_width,
                   cover_height, result, first_result, outside_layout>>

\* The size tuple written as (height, width).
PlaceCoverSwappedSize ==
    /\ pc = "loop"
    /\ next_cover <= Len(cover_paths)
    /\ LET col == ShortestCol(column_heights, num_columns)
           x == gap + col * (cover_width + gap)
           y == column_heights[col]
       IN  /\ shortest_col' = col
           /\ assigned' = Append(assigned, col)
           /\ layout' = Append(layout,
                  [path |-> cover_paths[next_cover], x |-> x, y |-> y,
                   w |-> cover_height, h |-> cover_width])
           /\ column_heights' = [column_heights EXCEPT
                                   ![col] = @ + cover_height + gap]
    /\ next_cover' = next_cover + 1
    /\ UNCHANGED <<self_fields, pc, cover_paths, num_columns, cover_width,
                   cover_height, result, first_result, outside_layout>>

\* One iteration of the for loop over cover_paths.
PlaceCover ==
    /\ pc = "loop"
    /\ next_cover <= Len(cover_paths)
    /\ LET col == ShortestCol(column_heights, num_columns)
           x == gap + col * (cover_width + gap)
           y == column_heights[col]
       IN  /\ shortest_col' = col
           /\ assigned' = Append(assigned, col)
           /\ layout' = Append(layout,
                  [path |-> cover_paths[next_cover], x |-> x, y |-> y,
                   w |-> cover_width, h |-> cover_height])
           /\ column_heights' = [column_heights EXCEPT
                                   ![col] = @ + cover_height + gap]
    /\ next_cover' = next_cover + 1
    /\ UNCHANGED <<self_fields, pc, cover_paths, num_columns, cover_width,
                   cover_height, result, first_result, outside_layout>>

\* The loop left one cover early.
ReturnEarly ==
    /\ pc = "loop"
    /\ next_cover >= Len(cover_paths)
    /\ pc' = "returned"
    /\ result' = layout
    /\ UNCHANGED <<self_fields, cover_paths, num_columns, cover_width,
                   cover_height, column_heights, next_cover, shortest_col,
                   layout, assigned, first_result, outside_layout>>

\* The loop is exhausted: return layout.
Return ==
    /\ pc = "loop"
    /\ next_cover > Len(cover_paths)
    /\ pc' = "returned"
    /\ result' = layout
    /\ UNCHANGED <<self_fields, cover_paths, num_columns, cover_width,
                   cover_height, column_heights, next_cover, shortest_col,
                   layout, assigned, first_result, outside_layout>>

Next == CallEmpty \/ Call \/ CallAgain \/ PlaceCover \/ Return

Spec == Init /\ [][Next]_vars

----------------------------------------------------------------------------
(***************************************************************************)
(* image.create_wallpaper: the compositor.                                 *)
(***************************************************************************)

\* Largest number of placements handed to create_wallpaper.
MaxPlacements == 3

\* Paths of cover files and the states a file can be in: readable, absent
\* (Image.open raises) or not decodable (open, convert or crop raises).
ComposePaths == {1, 2}
FileStates == {"ok", "missing", "corrupt"}

\* Placements: on the canvas or below its bottom edge, with a positive cell
\* or with the non-positive cell a degenerate plan produces.
ComposePlacements ==
    {[path |-> f, x |-> xy[1], y |-> xy[2], w |-> wh[1], h |-> wh[2]] :
        f \in ComposePaths, xy \in {<<4, 4>>, <<137, 700>>},
        wh \in {<<129, 194>>, <<0, 1>>}}

OutputSizes == {<<800, 600>>, <<1920, 1080>>}

\* Sequences over S of length at most n.
SeqUpTo(S, n) == UNION {[1..k -> S] : k \in 0..n}

\* No layout call is in progress on the object.
LayoutIdle ==
    /\ width = 0
    /\ height = 0
    /\ gap = 0
    /\ aspect_ratio = <<2, 3>>
    /\ pc = "idle"
    /\ cover_paths = <<>>
    /\ num_columns = 0
    /\ cover_width = 0
    /\ cover_height = 0
    /\ column_heights = <<>>
    /\ next_cover = 1
    /\ shortest_col = 0
    /\ layout = <<>>
    /\ result = <<>>
    /\ assigned = <<>>
    /\ first_result = NoResult

\* The body of the try block for one placement: Image.open and the decoding
\* fail on a file that is absent or broken, Image.resize raises ValueError
\* for a size that is not positive, and otherwise the cover is pasted
\* (a paste outside the canvas is clipped, it does not fail).
CoverOutcome(p) ==
    IF file_status[p.path] = "missing" THEN "open_failed"
    ELSE IF file_status[p.path] = "corrupt" THEN "decode_failed"
    ELSE IF p.w <= 0 \/ p.h <= 0 THEN "resize_failed"
    ELSE "ok"

\* The arguments create_wallpaper is called with.
ComposeInit ==
    /\ LayoutIdle
    /\ RunIdle
    /\ DownloadIdle
    /\ SourceIdle
    /\ CropIdle
    /\ layout_info \in SeqUpTo(ComposePlacements, MaxPlacements)
    /\ output_size \in OutputSizes
    /\ file_status \in [ComposePaths -> FileStates]
    /\ cw_pc = "idle"
    /\ cw_next = 1
    /\ canvas = [size |-> <<0, 0>>, pasted |-> <<>>]
    /\ warnings = <<>>

\* canvas = Image.new("RGB", output_size, background_color)
NewCanvas ==
    /\ cw_pc = "idle"
    /\ canvas' = [size |-> output_size, pasted |-> <<>>]
    /\ cw_pc' = "loop"
    /\ UNCHANGED <<layout_info, output_size, file_status, cw_next, warnings,
                   outside_compose>>

\* A failure ends the loop: the exception is not caught per cover.
ProcessCoverUncaught ==
    /\ cw_pc = "loop"
    /\ cw_next <= Len(layout_info)
    /\ LET p == layout_info[cw_next]
       IN  IF CoverOutcome(p) = "ok"
           THEN /\ canvas' = [canvas EXCEPT !.pasted = Append(@, p)]
                /\ UNCHANGED <<warnings, cw_pc>>
           ELSE /\ cw_pc' = "raised"
                /\ UNCHANGED <<canvas, warnings>>
    /\ cw_next' = cw_next + 1
    /\ UNCHANGED <<layout_info, output_size, file_status, outside_compose>>

\* One iteration of the loop over layout_info: the cover is pasted, or the
\* exception is caught, a warning printed and the loop continues.
ProcessCover ==
    /\ cw_pc = "loop"
    /\ cw_next <= Len(layout_info)
    /\ LET p == layout_info[cw_next]
       IN  IF CoverOutcome(p) = "ok"
           THEN /\ canvas' = [canvas EXCEPT !.pasted = Append(@, p)]
                /\ UNCHANGED warnings
           ELSE /\ warnings' = Append(warnings, p.path)
                /\ UNCHANGED canvas
    /\ cw_next' = cw_next + 1
    /\ UNCHANGED <<layout_info, output_size, file_status, cw_pc,
                   outside_compose>>

\* return canvas
ComposeReturn ==
    /\ cw_pc = "loop"
    /\ cw_next > Len(layout_info)
    /\ cw_pc' = "returned"
    /\ UNCHANGED <<layout_info, output_size, file_status, cw_next, canvas,
                   warnings, outside_compose>>

ComposeNext == NewCanvas \/ ProcessCover \/ ComposeReturn

ComposeSpec == ComposeInit /\ [][ComposeNext]_vars

----------------------------------------------------------------------------
(***************************************************************************)
(* cli._generate_wallpaper: one generation run.                            *)
(***************************************************************************)

\* Largest number of books a source returns in a run.
MaxRunBooks == 3

Sources == {"local", "goodreads", "search"}

\* What a source can return: LocalSource books carry the path of an existing
\* file; Goodreads and search books carry a cover URL whose download succeeds
\* or fails, or no URL at all.
BookKinds(src) ==
    IF src = "local" THEN {"file"} ELSE {"url_ok", "url_fail", "no_url"}

\* get_cover produces a path for the book.
HasCover(kind) == kind \in {"file", "url_ok"}

\* The books as the source returns them: cover_path is set (to the number of
\* the book) only for the files of a local directory, 0 stands for None.
AsBooks(kinds) ==
    [i \in 1..Len(kinds) |->
        [kind |-> kinds[i],
         cover_path |-> IF kinds[i] = "file" THEN i ELSE 0]]

\* The value of download_covers(bs): the books for which get_cover produced
\* a path, in order, with cover_path set.
RECURSIVE Downloaded(_)
Downloaded(bs) ==
    IF bs = <<>> THEN <<>>
    ELSE LET rest == Downloaded(Tail(bs))
         IN  IF HasCover(Head(bs).kind)
             THEN <<[Head(bs) EXCEPT !.cover_path =
                        IF @ # 0 THEN @ ELSE 100 + Len(rest)]>> \o rest
             ELSE rest

\* [book.cover_path for book in books if book.cover_path]
RECURSIVE CoverPathsOf(_)
CoverPathsOf(bs) ==
    IF bs = <<>> THEN <<>>
    ELSE IF Head(bs).cover_path # 0
         THEN <<Head(bs).cover_path>> \o CoverPathsOf(Tail(bs))
         ELSE CoverPathsOf(Tail(bs))

\* The test written "is None": never true of a list.
FalsyIsNone(list) == FALSE

\* not list
Falsy(list) == list = <<>>

\* The arguments of a run and what its source holds.
RunInit ==
    /\ LayoutIdle
    /\ ComposeIdle
    /\ DownloadIdle
    /\ SourceIdle
    /\ CropIdle
    /\ source \in Sources
    /\ arg_given \in BOOLEAN
    /\ fetched \in SeqUpTo(BookKinds(source), MaxRunBooks)
    /\ run_pc = "start"
    /\ books = <<>>
    /\ run_cover_paths = <<>>
    /\ invoked = <<>>
    /\ errors = <<>>

\* The branch of the source: the required option is missing, or get_books.
RunGetBooks ==
    /\ run_pc = "start"
    /\ IF ~arg_given
       THEN /\ errors' = Append(errors, "option required")
            /\ run_pc' = "done"
            /\ UNCHANGED books
       ELSE /\ books' = AsBooks(fetched)
            /\ run_pc' = IF source = "local" THEN "check" ELSE "fetched"
            /\ UNCHANGED errors
    /\ UNCHANGED <<source, arg_given, fetched, run_cover_paths, invoked,
                   outside_run>>

\* if books: books = await cover_manager.download_covers(books)
RunDownload ==
    /\ run_pc = "fetched"
    /\ IF ~Falsy(books)
       THEN /\ invoked' = Append(invoked,
                             [fn |-> "download_covers", n |-> Len(books)])
            /\ books' = Downloaded(books)
       ELSE UNCHANGED <<invoked, books>>
    /\ run_pc' = "check"
    /\ UNCHANGED <<source, arg_given, fetched, run_cover_paths, errors,
                   outside_run>>

\* if not books: "Error: No books found"
RunCheckBooks ==
    /\ run_pc = "check"
    /\ IF Falsy(books)
       THEN /\ errors' = Append(errors, "No books found")
            /\ run_pc' = "done"
       ELSE /\ run_pc' = "extract"
            /\ UNCHANGED errors
    /\ UNCHANGED <<source, arg_given, fetched, books, run_cover_paths,
                   invoked, outside_run>>

\* The cover paths are extracted; if not cover_paths: "Error: No valid cover
\* images found"
RunExtractPaths ==
    /\ run_pc = "extract"
    /\ run_cover_paths' = CoverPathsOf(books)
    /\ IF Falsy(CoverPathsOf(books))
       THEN /\ errors' = Append(errors, "No valid cover images found")
            /\ run_pc' = "done"
       ELSE /\ run_pc' = "layout"
            /\ UNCHANGED errors
    /\ UNCHANGED <<source, arg_given, fetched, books, invoked, outside_run>>

\* layout_info = layout.calculate_layout(cover_paths)
RunLayout ==
    /\ run_pc = "layout"
    /\ invoked' = Append(invoked, [fn |-> "calculate_layout",
                                   n |-> Len(run_cover_paths)])
    /\ run_pc' = "compose"
    /\ UNCHANGED <<source, arg_given, fetched, books, run_cover_paths,
                   errors, outside_run>>

\* wallpaper = create_wallpaper(layout_info, ...)
RunCompose ==
    /\ run_pc = "compose"
    /\ invoked' = Append(invoked, [fn |-> "create_wallpaper",
                                   n |-> Len(run_cover_paths)])
    /\ run_pc' = "save"
    /\ UNCHANGED <<source, arg_given, fetched, books, run_cover_paths,
                   errors, outside_run>>

\* wallpaper.save(output)
RunSave ==
    /\ run_pc = "save"
    /\ invoked' = Append(invoked, [fn |-> "save", n |-> 1])
    /\ run_pc' = "done"
    /\ UNCHANGED <<source, arg_given, fetched, books, run_cover_paths,
                   errors, outside_run>>

RunNext ==
    \/ RunGetBooks
    \/ RunDownload
    \/ RunCheckBooks
    \/ RunExtractPaths
    \/ RunLayout
    \/ RunCompose
    \/ RunSave

RunSpec == RunInit /\ [][RunNext]_vars

----------------------------------------------------------------------------
(***************************************************************************)
(* covers.CoverManager.download_covers: one get_cover task per book, run   *)
(* together by asyncio.gather(return_exceptions=True).                     *)
(***************************************************************************)

\* Largest number of books handed to download_covers.
MaxDownloads == 3

\* What get_cover meets for a book: an existing local cover_path; no
\* cover_url; a cache hit; a download that succeeds; a download that fails
\* inside the try block; an exception that leaves get_cover (raised outside
\* the try block or by the handler's print).
DownloadKinds ==
    {"local", "no_url", "cached", "fetch_ok", "fetch_fail", "raises"}

\* The books handed to download_covers. Book i has the URL i unless it has
\* none, and the cover_path i if it has a local file (0 stands for None).
DownloadBooks(kinds) ==
    [i \in 1..Len(kinds) |->
        [kind |-> kinds[i],
         cover_url |-> IF kinds[i] \in {"local", "no_url"} THEN 0 ELSE i,
         cover_path |-> IF kinds[i] = "local" THEN i ELSE 0]]

\* cache_dir / (md5 of the URL + extension)
CachePath(url) == 100 + url

\* Values a task can end with.
PathResult(p) == [tag |-> "path", path |-> p]
NoneResult == [tag |-> "none", path |-> 0]
ExceptionResult == [tag |-> "exception", path |-> 0]
PendingResult == [tag |-> "pending", path |-> 0]

DownloadInit ==
    /\ LayoutIdle
    /\ ComposeIdle
    /\ RunIdle
    /\ SourceIdle
    /\ CropIdle
    /\ \E kinds \in SeqUpTo(DownloadKinds, MaxDownloads) :
          /\ dl_books = DownloadBooks(kinds)
          /\ task_state = [i \in 1..Len(kinds) |-> "pending"]
          /\ task_result = [i \in 1..Len(kinds) |-> PendingResult]
    /\ dl_pc = "gather"
    /\ dl_next = 1
    /\ dl_result = <<>>

\* get_cover(book) runs up to its first await: it returns the local path,
\* None or the cached path, or it waits for the HTTP response.
TaskStart(i) ==
    /\ dl_pc = "gather"
    /\ task_state[i] = "pending"
    /\ LET book == dl_books[i]
       IN  IF book.kind = "local"
           THEN /\ task_state' = [task_state EXCEPT ![i] = "done"]
                /\ task_result' =
                      [task_result EXCEPT ![i] = PathResult(book.cover_path)]
           ELSE IF book.kind = "no_url"
           THEN /\ task_state' = [task_state EXCEPT ![i] = "done"]
                /\ task_result' = [task_result EXCEPT ![i] = NoneResult]
           ELSE IF book.kind = "cached"
           THEN /\ task_state' = [task_state EXCEPT ![i] = "done"]
                /\ task_result' =
                      [task_result EXCEPT
                          ![i] = PathResult(CachePath(book.cover_url))]
           ELSE /\ task_state' = [task_state EXCEPT ![i] = "awaiting"]
                /\ UNCHANGED task_result
    /\ UNCHANGED <<dl_books, dl_pc, dl_next, dl_result, outside_download>>

\* The response arrives: the bytes are written to the cache and the path
\* returned; or the failure is caught and None returned; or an exception
\* leaves the coroutine and gather keeps it as the task's result.
TaskFinish(i) ==
    /\ dl_pc = "gather"
    /\ task_state[i] = "awaiting"
    /\ task_state' = [task_state EXCEPT ![i] = "done"]
    /\ LET book == dl_books[i]
       IN  task_result' =
              [task_result EXCEPT ![i] =
                  IF book.kind = "fetch_ok"
                  THEN PathResult(CachePath(book.cover_url))
                  ELSE IF book.kind = "fetch_fail"
                  THEN NoneResult
                  ELSE ExceptionResult]
    /\ UNCHANGED <<dl_books, dl_pc, dl_next, dl_result, outside_download>>

\* gather without return_exceptions: the first exception of a task is
\* raised in download_covers.
GatherDoneFirstException ==
    /\ dl_pc = "gather"
    /\ IF \E i \in 1..Len(dl_books) : task_result[i] = ExceptionResult
       THEN dl_pc' = "raised"
       ELSE /\ \A i \in 1..Len(dl_books) : task_state[i] = "done"
            /\ dl_pc' = "filter"
    /\ UNCHANGED <<dl_books, task_state, task_result, dl_next, dl_result,
                   outside_download>>

\* await asyncio.gather(*tasks, return_exceptions=True) returns when every
\* task is done, with the results in the order of the books.
GatherDone ==
    /\ dl_pc = "gather"
    /\ \A i \in 1..Len(dl_books) : task_state[i] = "done"
    /\ dl_pc' = "filter"
    /\ UNCHANGED <<dl_books, task_state, task_result, dl_next, dl_result,
                   outside_download>>

\* One iteration over zip(books, cover_paths): exceptions and None are
\* skipped, otherwise the book gets its cover_path and is appended.
FilterStep ==
    /\ dl_pc = "filter"
    /\ dl_next <= Len(dl_books)
    /\ LET cover_path == task_result[dl_next]
       IN  IF cover_path = ExceptionResult \/ cover_path = NoneResult
           THEN UNCHANGED <<dl_books, dl_result>>
           ELSE /\ dl_books' = [dl_books EXCEPT
                                   ![dl_next].cover_path = cover_path.path]
                /\ dl_result' = Append(dl_result,
                      [dl_books[dl_next] EXCEPT
                          !.cover_path = cover_path.path])
    /\ dl_next' = dl_next + 1
    /\ UNCHANGED <<task_state, task_result, dl_pc, outside_download>>

\* return books_with_covers
DownloadReturn ==
    /\ dl_pc = "filter"
    /\ dl_next > Len(dl_books)
    /\ dl_pc' = "returned"
    /\ UNCHANGED <<dl_books, task_state, task_result, dl_next, dl_result,
                   outside_download>>

DownloadNext ==
    \/ \E i \in 1..Len(dl_books) : TaskStart(i)
    \/ \E i \in 1..Len(dl_books) : TaskFinish(i)
    \/ GatherDone
    \/ FilterStep
    \/ DownloadReturn

DownloadSpec == DownloadInit /\ [][DownloadNext]_vars

----------------------------------------------------------------------------
(***************************************************************************)
(* sources: LocalSource.get_books, GoodreadsSource.get_books (CSV export   *)
(* and RSS feed) and SearchSource.get_books.                               *)
(***************************************************************************)

\* Largest number of directory entries, CSV rows, feed items or Google
\* results.
MaxSourceItems == 3

\* Largest number of Open Library results.
MaxOpenLibrary == 1

\* Largest limit asked for.
MaxLimit == 2

\* --limit is an int option without a range.
Limits == -1..MaxLimit

SourceKinds == {"local", "csv", "rss", "search"}

\* str.lower() on the strings of the model.
Lower(s) ==
    CASE s = "Read" -> "read"
      [] s = ".JPG" -> ".jpg"
      [] s = "Dune" -> "dune"
      [] s = "Emma" -> "emma"
      [] s = "Herbert" -> "herbert"
      [] s = "HERBERT " -> "herbert "
      [] OTHER -> s

\* str.strip() on the strings of the model.
Strip(s) ==
    CASE s = " dune" -> "dune"
      [] s = "herbert " -> "herbert"
      [] s = "HERBERT " -> "HERBERT"
      [] OTHER -> s

\* seq[:limit]
PySliceTo(seq, limit) ==
    IF limit >= 0
    THEN SubSeq(seq, 1, Min(limit, Len(seq)))
    ELSE SubSeq(seq, 1, Max(Len(seq) + limit, 0))

\* The sequences of at most n elements of S in which no name occurs twice.
DistinctNames(S, n) ==
    {q \in SeqUpTo(S, n) :
        \A i, j \in 1..Len(q) : i # j => q[i].name # q[j].name}

----------------------------------------------------------------------------
\* LocalSource

Suffixes == {".png", ".JPG", ".txt"}

image_extensions == {".jpg", ".jpeg", ".png", ".webp"}

\* What iterdir can yield: files and directories, each with a name of its own.
DirEntries ==
    [name : 1..MaxSourceItems, suffix : Suffixes, is_file : BOOLEAN]

\* The entry is a file whose lower-cased suffix is an image extension.
IsImageFile(e) == e.is_file /\ Lower(e.suffix) \in image_extensions

\* sorted(paths): the entries by ascending name.
RECURSIVE SortedByName(_)
SortedByName(entries) ==
    IF entries = <<>> THEN <<>>
    ELSE LET m == CHOOSE i \in 1..Len(entries) :
                     \A j \in 1..Len(entries) :
                        entries[i].name <= entries[j].name
             others == [k \in 1..(Len(entries) - 1) |->
                          IF k < m THEN entries[k] ELSE entries[k + 1]]
         IN  <<entries[m]>> \o SortedByName(others)

\* The for loop over the sorted entries, from the position where rest starts.
RECURSIVE LocalScan(_, _, _)
LocalScan(rest, limit, found) ==
    IF rest = <<>> \/ Len(found) >= limit THEN found
    ELSE IF ~IsImageFile(Head(rest))
         THEN LocalScan(Tail(rest), limit, found)
         ELSE LocalScan(Tail(rest), limit,
                        Append(found, [title |-> Head(rest).name,
                                       cover_path |-> Head(rest).name]))

\* LocalSource(directory).get_books(limit)
LocalBooks(exists, entries, limit) ==
    IF ~exists THEN <<>> ELSE LocalScan(SortedByName(entries), limit, <<>>)

----------------------------------------------------------------------------
\* GoodreadsSource, CSV export

Shelves == {"read", "Read", "to-read", "currently-reading"}

\* Values of the Date Read column: empty, the two formats parsed, and one
\* that neither format parses.
DateStrings == {"", "2024/01/15", "2023-06-01", "15.01.2025"}

\* The rows of the file; the title of a row is its number.
CsvRows(kinds) ==
    [i \in 1..Len(kinds) |->
        [title |-> i, shelf |-> kinds[i][1], date_read |-> kinds[i][2]]]

\* strptime with "%Y/%m/%d", then with "%Y-%m-%d"; 0 stands for None.
ParseDate(str) ==
    CASE str = "2024/01/15" -> 20240115
      [] str = "2023-06-01" -> 20230601
      [] OTHER -> 0

\* datetime.min
DatetimeMin == 10101

\* key=lambda x: x[0] if x[0] else datetime.min
SortKey(entry) == IF entry.date # 0 THEN entry.date ELSE DatetimeMin

\* The loop over the reader: the rows of the read shelf with their dates.
RECURSIVE ReadBooks(_)
ReadBooks(rows) ==
    IF rows = <<>> THEN <<>>
    ELSE IF Lower(Head(rows).shelf) # "read"
         THEN ReadBooks(Tail(rows))
         ELSE <<[date |-> ParseDate(Head(rows).date_read),
                 title |-> Head(rows).title]>> \o ReadBooks(Tail(rows))

\* Position of entry in a list sorted by descending key: after every element
\* whose key is not smaller (the sort is stable).
InsertDescending(sorted, entry) ==
    LET k == Cardinality({i \in 1..Len(sorted) :
                             SortKey(sorted[i]) >= SortKey(entry)})
    IN  SubSeq(sorted, 1, k) \o <<entry>> \o SubSeq(sorted, k + 1, Len(sorted))

\* read_books.sort(key=..., reverse=True)
RECURSIVE SortByDateRead(_)
SortByDateRead(entries) ==
    IF entries = <<>> THEN <<>>
    ELSE InsertDescending(
            SortByDateRead(SubSeq(entries, 1, Len(entries) - 1)),
            entries[Len(entries)])

\* The books of the entries, in their order.
BooksOf(entries) == [i \in 1..Len(entries) |-> [title |-> entries[i].title]]

\* The limit cuts the unsorted list, and what is left is sorted.
CsvBooksLimitFirst(exists, rows, limit) ==
    IF ~exists THEN <<>>
    ELSE BooksOf(SortByDateRead(PySliceTo(ReadBooks(rows), limit)))

\* GoodreadsSource(csv_path)._get_books_from_csv(limit)
CsvBooks(exists, rows, limit) ==
    IF ~exists THEN <<>>
    ELSE BooksOf(PySliceTo(SortByDateRead(ReadBooks(rows)), limit))

----------------------------------------------------------------------------
\* GoodreadsSource, RSS feed

\* The items of the feed; the title of an item is its number.
RssItems(n) == [i \in 1..n |-> [title |-> i]]

\* The for loop over the items, from the position where rest starts.
RECURSIVE RssScan(_, _, _)
RssScan(rest, limit, found) ==
    IF rest = <<>> \/ Len(found) >= limit THEN found
    ELSE RssScan(Tail(rest), limit, Append(found, Head(rest)))

\* GoodreadsSource(user_id)._get_books_from_rss(limit): a failed request is
\* caught and the empty list returned.
RssBooks(fetched_ok, items, limit) ==
    IF ~fetched_ok THEN <<>> ELSE RssScan(items, limit, <<>>)

----------------------------------------------------------------------------
\* SearchSource

\* ISBNs of the results; 0 stands for None.
Isbns == {0, 1, 2}

\* Titles and authors of the results; "" stands for no author.
TitleAuthors == {<<"Dune", "Herbert">>, <<" dune", "HERBERT ">>, <<"Emma", "">>}

\* The books _search_google_books and _search_open_library return.
SearchResults ==
    {[isbn |-> i, title |-> ta[1], author |-> ta[2]] :
        i \in Isbns, ta \in TitleAuthors}

\* (book.title.lower().strip(), (book.author or "").lower().strip())
TitleKey(book) == <<Strip(Lower(book.title)), Strip(Lower(book.author))>>

\* The deduplicating loop, from the position where rest starts.
RECURSIVE Deduplicate(_, _, _, _, _)
Deduplicate(rest, limit, seen_isbns, seen_titles, unique_books) ==
    IF rest = <<>> \/ Len(unique_books) >= limit THEN unique_books
    ELSE LET book == Head(rest)
         IN  IF book.isbn # 0 /\ book.isbn \in seen_isbns
             THEN Deduplicate(Tail(rest), limit, seen_isbns, seen_titles,
                              unique_books)
             ELSE LET isbns == IF book.isbn # 0
                               THEN seen_isbns \cup {book.isbn}
                               ELSE seen_isbns
                  IN  IF TitleKey(book) \in seen_titles
                      THEN Deduplicate(Tail(rest), limit, isbns, seen_titles,
                                       unique_books)
                      ELSE Deduplicate(Tail(rest), limit, isbns,
                                       seen_titles \cup {TitleKey(book)},
                                       Append(unique_books, book))

\* SearchSource(query).get_books(limit), given what the two searches return.
SearchBooks(google_books, open_library_books, limit) ==
    PySliceTo(Deduplicate(google_books \o open_library_books, limit,
                          {}, {}, <<>>), limit)

----------------------------------------------------------------------------
\* What the environment can hold for a source.
SourceInputs(kind, exists) ==
    IF ~exists THEN {<<>>}
    ELSE CASE kind = "local" -> DistinctNames(DirEntries, MaxSourceItems)
           [] kind = "csv" ->
                 {CsvRows(k) : k \in SeqUpTo(Shelves \X DateStrings,
                                             MaxSourceItems)}
           [] kind = "rss" -> {RssItems(n) : n \in 0..MaxSourceItems}
           [] kind = "search" -> SeqUpTo(SearchResults, MaxSourceItems - 1)

\* A get_books(limit) call on one of the sources.
SourceInit ==
    /\ LayoutIdle
    /\ ComposeIdle
    /\ RunIdle
    /\ DownloadIdle
    /\ CropIdle
    /\ src_kind \in SourceKinds
    /\ src_limit \in Limits
    /\ src_exists \in IF src_kind = "search" THEN {TRUE} ELSE BOOLEAN
    /\ src_input \in SourceInputs(src_kind, src_exists)
    /\ src_second \in IF src_kind = "search"
                      THEN SeqUpTo(SearchResults, MaxOpenLibrary)
                      ELSE {<<>>}
    /\ src_pc = "called"
    /\ src_result = <<>>

LocalGetBooks ==
    /\ src_pc = "called"
    /\ src_kind = "local"
    /\ src_result' = LocalBooks(src_exists, src_input, src_limit)
    /\ src_pc' = "returned"
    /\ UNCHANGED <<src_kind, src_limit, src_exists, src_input, src_second,
                   outside_source>>

CsvGetBooks ==
    /\ src_pc = "called"
    /\ src_kind = "csv"
    /\ src_result' = CsvBooks(src_exists, src_input, src_limit)
    /\ src_pc' = "returned"
    /\ UNCHANGED <<src_kind, src_limit, src_exists, src_input, src_second,
                   outside_source>>

RssGetBooks ==
    /\ src_pc = "called"
    /\ src_kind = "rss"
    /\ src_result' = RssBooks(src_exists, src_input, src_limit)
    /\ src_pc' = "returned"
    /\ UNCHANGED <<src_kind, src_limit, src_exists, src_input, src_second,
                   outside_source>>

SearchGetBooks ==
    /\ src_pc = "called"
    /\ src_kind = "search"
    /\ src_result' = SearchBooks(src_input, src_second, src_limit)
    /\ src_pc' = "returned"
    /\ UNCHANGED <<src_kind, src_limit, src_exists, src_input, src_second,
                   outside_source>>

SourceNext ==
    \/ LocalGetBooks
    \/ CsvGetBooks
    \/ RssGetBooks
    \/ SearchGetBooks

SourceSpec == SourceInit /\ [][SourceNext]_vars

----------------------------------------------------------------------------
(***************************************************************************)
(* image.crop_to_aspect_ratio                                              *)
(***************************************************************************)

\* Every image side from 1 to MaxSmallSide is tried.
MaxSmallSide == 8

\* Sides of images: the small ones and sides of thumbnails, covers and photos.
ImageSides == (1..MaxSmallSide) \cup {15, 100, 150, 400, 600, 601, 1000}

\* abs(img_ratio - target_ratio) < 0.01, for img_ratio = w / h and
\* target_ratio = ar[1] / ar[2]
AlreadyCorrectRatio(w, h, ar) ==
    Abs(w * ar[2] - h * ar[1]) * 100 < h * ar[2]

\* The box is cut from the top-left corner.
CropBoxTopLeft(w, h, ar) ==
    IF AlreadyCorrectRatio(w, h, ar) THEN <<0, 0, w, h>>
    ELSE IF w * ar[2] > h * ar[1]
         THEN <<0, 0, IntTrunc(h * ar[1], ar[2]), h>>
         ELSE <<0, 0, w, IntTrunc(w * ar[2], ar[1])>>

\* The box (left, upper, right, lower) of the image that is returned; the
\* whole image when its ratio is already correct.
CropBox(w, h, ar) ==
    IF AlreadyCorrectRatio(w, h, ar) THEN <<0, 0, w, h>>
    ELSE IF w * ar[2] > h * ar[1]
         THEN LET new_width == IntTrunc(h * ar[1], ar[2])
                  left == PyFloorDiv(w - new_width, 2)
              IN  <<left, 0, left + new_width, h>>
         ELSE LET new_height == IntTrunc(w * ar[2], ar[1])
                  top == PyFloorDiv(h - new_height, 2)
              IN  <<0, top, w, top + new_height>>

\* An image and a target ratio.
CropInit ==
    /\ LayoutIdle
    /\ ComposeIdle
    /\ RunIdle
    /\ DownloadIdle
    /\ SourceIdle
    /\ crop_size \in ImageSides \X ImageSides
    /\ crop_ratio \in AspectRatios
    /\ crop_pc = "called"
    /\ crop_box = <<0, 0, 0, 0>>

CropToAspectRatio ==
    /\ crop_pc = "called"
    /\ crop_box' = CropBox(crop_size[1], crop_size[2], crop_ratio)
    /\ crop_pc' = "returned"
    /\ UNCHANGED <<crop_size, crop_ratio, outside_crop>>

CropNext == CropToAspectRatio

CropSpec == CropInit /\ [][CropNext]_vars

----------------------------------------------------------------------------
\* The call has a plan: _calculate_optimal_layout returned for a non-empty list.
Planned == pc \in {"loop", "returned"} /\ cover_paths # <<>>

\* The call has returned the placements of a non-empty list.
Placed == pc = "returned" /\ cover_paths # <<>>

\* C1: for a non-empty list of cover paths calculate_layout returns a list
\* of the same length whose i-th entry carries the i-th input path.
NoCoverDroppedOrReordered ==
    Placed => /\ Len(result) = Len(cover_paths)
              /\ \A i \in 1..Len(cover_paths) :
                    result[i].path = cover_paths[i]

\* A call on a list with repeated paths returned, using several columns.
NoCoverDroppedWitness ==
    /\ Placed
    /\ Len(result) >= 12
    /\ num_columns >= 2
    /\ cover_paths[1] = cover_paths[3]
    /\ cover_paths[1] # cover_paths[2]

\* C2: every iteration of the placement loop chooses a column whose height
\* before the update is <= the height of every other column, the lowest
\* index among the columns tied for the minimum, and it is that column the
\* iteration raises.
ShortestColumnChosen ==
    [][Len(layout') = Len(layout) + 1 =>
         /\ \A j \in 0..(num_columns - 1) :
               /\ column_heights[shortest_col'] <= column_heights[j]
               /\ column_heights[j] = column_heights[shortest_col']
                     => shortest_col' <= j
         /\ layout'[Len(layout')].y = column_heights[shortest_col']
         /\ column_heights' = [column_heights EXCEPT
               ![shortest_col'] = @ + cover_height + gap]]_vars

\* The second cover went to column 1 while column 2 was tied with it.
ShortestColumnWitness ==
    /\ pc = "loop"
    /\ Len(layout) = 2
    /\ num_columns >= 3
    /\ cover_height + gap > 0
    /\ shortest_col = 1
    /\ column_heights[2] = gap

\* C3: every returned placement has 0 <= x and x + w <= canvas width.
NoHorizontalOverflow ==
    Placed => \A i \in 1..Len(result) :
                 0 <= result[i].x /\ result[i].x + result[i].w <= width

\* C4: the layout engine never raises for a positive canvas, gap >= 0 and a
\* positive aspect ratio.
NeverRaises == pc # "raised"

\* C5: the plan of a call with at least one cover has num_columns >= 1,
\* cover_width >= 1 and cover_height >= 1.
PlanPositive ==
    Planned => num_columns >= 1 /\ cover_width >= 1 /\ cover_height >= 1

\* C6 (as claimed): the cell size of every returned placement has w/h within
\* 1% of aspect w / aspect h, i.e. |w*ah - h*aw| / (|h|*ah) < 1/100.
AspectWithinOnePercent ==
    Placed => \A i \in 1..Len(result) :
                 /\ result[i].h # 0
                 /\ 100 * Abs(result[i].w * aspect_ratio[2]
                              - result[i].h * aspect_ratio[1])
                       < Abs(result[i].h) * aspect_ratio[2]

\* C6 (amended): the cell size of every returned placement is the aspect
\* ratio up to the truncation of one dimension to whole pixels:
\* |w*ah - h*aw| < max(aw, ah).
AspectWithinOnePixel ==
    Placed => \A i \in 1..Len(result) :
                 Abs(result[i].w * aspect_ratio[2]
                     - result[i].h * aspect_ratio[1])
                    < Max(aspect_ratio[1], aspect_ratio[2])

\* Positive cells that are more than 1% off the ratio.
AspectWitness ==
    /\ Placed
    /\ width >= 40
    /\ cover_width >= 1
    /\ cover_height >= 1
    /\ cover_width * aspect_ratio[2] # cover_height * aspect_ratio[1]
    /\ 100 * Abs(result[1].w * aspect_ratio[2]
                 - result[1].h * aspect_ratio[1])
          >= result[1].h * aspect_ratio[2]

\* C7 (as claimed): after all covers are placed even the shortest column
\* reaches the canvas height.
ShortestColumnReachesBottom ==
    Placed => \A c \in 0..(num_columns - 1) : column_heights[c] >= height

\* Column c received a cover: column 0 takes the first cover, and another
\* column is chosen only when a cover raises it (cover_height + gap > 0).
ColumnUsed(c) == c = 0 \/ column_heights[c] # gap

\* C7 (amended): after all covers are placed every column that received a
\* cover ends at or above the canvas bottom (final height <= canvas height):
\* the cells are sized to fit, not to overfill.
UsedColumnsFit ==
    Placed => \A c \in 0..(num_columns - 1) :
                 ColumnUsed(c) => column_heights[c] <= height

\* Positive cells in several columns, all used, one of them exactly as high
\* as the canvas and another one shorter.
UsedColumnsFitWitness ==
    /\ Placed
    /\ num_columns >= 2
    /\ cover_width >= 1
    /\ cover_height >= 1
    /\ \A c \in 0..(num_columns - 1) : column_heights[c] > gap
    /\ \E c \in 0..(num_columns - 1) : column_heights[c] = height
    /\ \E c \in 0..(num_columns - 1) : column_heights[c] < height

\* Width derived from the height that fits max_books_per_column rows.
FittedWidth ==
    LET m == (Len(cover_paths) + num_columns - 1) \div num_columns
        ch == PyFloorDiv(height - (m + 1) * gap, m)
    IN  IntTrunc(ch * aspect_ratio[1], aspect_ratio[2])

\* Width that fills the canvas with num_columns columns.
FilledWidth == PyFloorDiv(width - (num_columns + 1) * gap, num_columns)

\* C8 (as claimed): the plan's cover_width is
\* floor((width - (num_columns + 1) * gap) / num_columns).
SnappedToWidth == Planned => cover_width = FilledWidth

\* C8 (amended): the plan's cover_width is the smaller of the width derived
\* from the fitted height and floor((width - (num_columns+1)*gap) /
\* num_columns): it is snapped to the canvas only when the fitted cells
\* would overflow it, so the horizontal slack is >= 0 but not bounded by
\* num_columns - 1.
SnappedOnlyWhenTooWide ==
    Planned => /\ cover_width = Min(FittedWidth, FilledWidth)
               /\ width - (num_columns * cover_width
                           + (num_columns + 1) * gap) >= 0

\* A plan with positive cells that keeps the fitted width and leaves more
\* than num_columns - 1 pixels of the canvas width unused, on a canvas for
\* which the plan of another count is snapped.
SnappedWitness ==
    /\ Planned
    /\ cover_width >= 1
    /\ cover_height >= 1
    /\ cover_width = FittedWidth
    /\ FittedWidth < FilledWidth
    /\ width - (num_columns * cover_width + (num_columns + 1) * gap)
          > num_columns - 1
    /\ \E m \in 1..MaxBooks :
          LET p == CalculateOptimalLayout(width, height, gap, aspect_ratio, m)
          IN  /\ ~p.raised
              /\ p.cover_width >= 1
              /\ p.cover_height >= 1
              /\ p.cover_width = PyFloorDiv(width - (p.num_columns + 1) * gap,
                                            p.num_columns)
              /\ p.cover_height # PyFloorDiv(
                     height - (MaxBooksPerColumn(m, p.num_columns) + 1) * gap,
                     MaxBooksPerColumn(m, p.num_columns))

\* C9: for a fixed canvas, gap and aspect ratio the cell height does not
\* grow with the cover count: the plan for n covers is no higher than the
\* plan for any smaller count m >= 1.
HeightMonotoneInCount ==
    Planned =>
       \A m \in 1..(Len(cover_paths) - 1) :
          LET p == CalculateOptimalLayout(width, height, gap, aspect_ratio, m)
          IN  ~p.raised => cover_height <= p.cover_height

\* C10: on the 1920x1080 canvas with gap 4 and ratio 2:3 the cell height
\* of 18 covers is below that of 12, that of 25 below that of 18 and that
\* of 60 below that of 12.
DocumentedCountsShrink ==
    (Planned /\ width = 1920 /\ height = 1080 /\ gap = 4
             /\ aspect_ratio = <<2, 3>>) =>
       LET h(n) == CalculateOptimalLayout(width, height, gap,
                                          aspect_ratio, n).cover_height
       IN  /\ Len(cover_paths) = 18 => cover_height < h(12)
           /\ Len(cover_paths) = 25 => cover_height < h(18)
           /\ Len(cover_paths) = 60 => cover_height < h(12)

\* The documented canvas was planned for 60 covers.
DocumentedCountsWitness ==
    /\ Planned
    /\ width = 1920 /\ height = 1080 /\ gap = 4 /\ aspect_ratio = <<2, 3>>
    /\ Len(cover_paths) = 60
    /\ cover_height >= 1

\* C11: all placements returned by one call carry the same size (w, h), the
\* (cover_width, cover_height) _calculate_optimal_layout returns for the
\* number of covers of the call.
UniformCellSize ==
    Placed =>
       LET p == CalculateOptimalLayout(width, height, gap, aspect_ratio,
                                       Len(cover_paths))
       IN  \A i \in 1..Len(result) :
              result[i].w = p.cover_width /\ result[i].h = p.cover_height

\* Twelve or more placements of a cell that is not square.
UniformCellSizeWitness ==
    /\ Placed
    /\ Len(result) >= 12
    /\ cover_width >= 1
    /\ cover_height >= 1
    /\ cover_width # cover_height

\* Number of covers placed before the i-th one in the column of the i-th.
EarlierInColumn(i) ==
    Cardinality({j \in 1..(i - 1) : assigned[j] = assigned[i]})

\* C12: every returned placement is at x = gap + c * (cover_width + gap) and
\* y = gap + k * (cover_height + gap), c its column and k the number of
\* earlier covers of that column; the first cover is at (gap, gap).
PositionsFollowColumns ==
    Placed =>
       /\ Len(assigned) = Len(result)
       /\ \A i \in 1..Len(result) :
             /\ result[i].x = gap + assigned[i] * (cover_width + gap)
             /\ result[i].y = gap + EarlierInColumn(i) * (cover_height + gap)
       /\ result[1].x = gap
       /\ result[1].y = gap

\* A layout with a top margin, three columns or more and a cover that has
\* two covers above it.
PositionsWitness ==
    /\ Placed
    /\ gap > 0
    /\ num_columns >= 3
    /\ cover_width >= 1
    /\ cover_height >= 1
    /\ \E i \in 1..Len(result) : assigned[i] >= 2 /\ EarlierInColumn(i) >= 2

\* C13: every plan _calculate_optimal_layout returns satisfies
\* num_columns * cover_width + (num_columns + 1) * gap <= canvas width.
PlanFitsWidth ==
    Planned =>
       num_columns * cover_width + (num_columns + 1) * gap <= width

\* A plan of several columns with positive cells whose fitted width was too
\* wide for the canvas.
PlanFitsWidthWitness ==
    /\ Planned
    /\ num_columns >= 2
    /\ cover_width >= 1
    /\ cover_height >= 1
    /\ num_columns * FittedWidth + (num_columns + 1) * gap > width

\* C14 (as claimed): the plan's cover_height is
\* round(cover_width * aspect h / aspect w).
HeightRoundedFromWidth ==
    Planned => cover_height = RoundHalfEven(cover_width * aspect_ratio[2],
                                            aspect_ratio[1])

\* C14 (amended): when the fitted cells fit the canvas width the plan keeps
\* the fitted height and derives the width from it,
\* cover_width = int(cover_height * aspect w / aspect h); only when they are
\* too wide is the height derived from the width, and then by truncation:
\* cover_height = int(cover_width * aspect h / aspect w).
HeightOrWidthTruncated ==
    Planned =>
       IF num_columns * FittedWidth + (num_columns + 1) * gap > width
       THEN cover_height = IntTrunc(cover_width * aspect_ratio[2],
                                    aspect_ratio[1])
       ELSE /\ cover_width = IntTrunc(cover_height * aspect_ratio[1],
                                      aspect_ratio[2])
            /\ cover_height = PyFloorDiv(
                  height - (MaxBooksPerColumn(Len(cover_paths), num_columns)
                            + 1) * gap,
                  MaxBooksPerColumn(Len(cover_paths), num_columns))

\* A plan with positive cells whose height was derived from the width and is
\* not the rounded value.
HeightTruncatedWitness ==
    /\ Planned
    /\ cover_width >= 1
    /\ cover_height >= 1
    /\ num_columns * FittedWidth + (num_columns + 1) * gap > width
    /\ cover_height # RoundHalfEven(cover_width * aspect_ratio[2],
                                    aspect_ratio[1])

\* C15: when the computed cover width would be <= 0 the plan is clamped to
\* num_columns = 1 and cover_width = max(1, width - 2 * gap).
ClampedWhenGapTooLarge ==
    (Planned /\ Min(FittedWidth, FilledWidth) <= 0) =>
       /\ num_columns = 1
       /\ cover_width = Max(1, width - 2 * gap)

\* C16: a call leaves width, height, gap and aspect_ratio of the object
\* unchanged, and a second call on the same object with the same list
\* returns the placements the first call returned.
Stateless ==
    [][/\ self_fields' = self_fields
       /\ (pc' = "returned" /\ first_result'.called)
             => result' = first_result'.value]_vars

\* The second call on a list of twelve covers or more, laid out in several
\* columns, has returned.
StatelessWitness ==
    /\ pc = "returned"
    /\ first_result.called
    /\ Len(result) >= 12
    /\ num_columns >= 2
    /\ cover_height + gap > 0

\* C17: calculate_layout on an empty list returns an empty list, without an
\* error and without a plan (no column count, no cell size), whatever the
\* canvas, gap and aspect ratio.
EmptyListReturnsEmpty ==
    (pc # "idle" /\ cover_paths = <<>>) =>
       /\ pc = "returned"
       /\ result = <<>>
       /\ num_columns = 0
       /\ cover_width = 0
       /\ cover_height = 0
       /\ column_heights = <<>>

\* The empty list was laid out on an object for which the plan of no covers
\* would have divided by zero.
EmptyListWitness ==
    /\ pc = "returned"
    /\ cover_paths = <<>>
    /\ CalculateOptimalLayout(width, height, gap, aspect_ratio, 0).raised

\* The placement can be processed: its file is readable and its cell positive.
Processable(p) == file_status[p.path] = "ok" /\ p.w > 0 /\ p.h > 0

\* C18: create_wallpaper never raises; it returns a canvas of the requested
\* size on which exactly the processable placements were pasted, in input
\* order, every other placement having been skipped with a warning.
ComposeSkipsFailures ==
    /\ cw_pc \in {"idle", "loop", "returned"}
    /\ cw_pc = "returned" =>
          /\ canvas.size = output_size
          /\ canvas.pasted = SelectSeq(layout_info, Processable)
          /\ Len(warnings) + Len(canvas.pasted) = Len(layout_info)
          /\ cw_next = Len(layout_info) + 1

\* A cover that failed was followed by a cover that was pasted.
ComposeWitness ==
    /\ cw_pc = "returned"
    /\ Len(layout_info) = 3
    /\ ~Processable(layout_info[1])
    /\ ~Processable(layout_info[2])
    /\ layout_info[2].w > 0
    /\ Processable(layout_info[3])
    /\ canvas.pasted = <<layout_info[3]>>

\* Number of covers the run can resolve: the books of the source for which
\* a cover exists or can be downloaded.
ResolvedCovers ==
    IF arg_given
    THEN Cardinality({i \in 1..Len(fetched) : HasCover(fetched[i])})
    ELSE 0

\* The run has gone past the checks, to the layout, the compositor or the save.
PastChecks ==
    \E i \in 1..Len(invoked) :
       invoked[i].fn \in {"calculate_layout", "create_wallpaper", "save"}

\* C19: a run whose resolved set of covers is empty never invokes
\* calculate_layout, create_wallpaper or the save and ends with an error
\* reported; calculate_layout is only ever called with at least one cover.
NoLayoutWithoutCovers ==
    /\ ResolvedCovers = 0 =>
          /\ ~PastChecks
          /\ run_pc = "done" => errors # <<>>
    /\ \A i \in 1..Len(invoked) :
          invoked[i].fn = "calculate_layout" => invoked[i].n >= 1

\* A run on a source that returned books, all of whose downloads failed, has
\* ended.
NoLayoutWitness ==
    /\ run_pc = "done"
    /\ source = "goodreads"
    /\ arg_given
    /\ Len(fetched) >= 2
    /\ fetched[1] = "url_fail"
    /\ ResolvedCovers = 0
    /\ invoked = <<[fn |-> "download_covers", n |-> Len(fetched)]>>
    /\ errors = <<"No books found">>

\* get_cover produces a path for a book of this kind, whatever the other
\* books of the list are.
ProducesPath(kind) == kind \in {"local", "cached", "fetch_ok"}

\* The books among the first n for which get_cover produced a path, in input
\* order, each with that path as cover_path.
RECURSIVE BooksWithPath(_)
BooksWithPath(n) ==
    IF n = 0 THEN <<>>
    ELSE IF task_result[n].tag = "path"
         THEN Append(BooksWithPath(n - 1),
                     [dl_books[n] EXCEPT !.cover_path = task_result[n].path])
         ELSE BooksWithPath(n - 1)

\* C20: download_covers never raises; gather returns only when every task is
\* done, each task ending with a path exactly when its own book has an
\* existing file, a cache hit or a successful download; the list returned is
\* the subsequence, in input order, of the books whose get_cover produced a
\* path, each with cover_path set to that path.
FailureIsolation ==
    /\ dl_pc # "raised"
    /\ dl_pc \in {"filter", "returned"} =>
          \A i \in 1..Len(dl_books) :
             /\ task_state[i] = "done"
             /\ task_result[i].tag = "path" <=> ProducesPath(dl_books[i].kind)
             /\ task_result[i].tag = "path" =>
                   task_result[i].path =
                      IF dl_books[i].kind = "local" THEN i ELSE CachePath(i)
    /\ dl_pc = "filter" => dl_result = BooksWithPath(dl_next - 1)
    /\ dl_pc = "returned" => dl_result = BooksWithPath(Len(dl_books))

\* download_covers has returned the one book whose download succeeded, placed
\* between a book whose task raised and a book whose download failed.
FailureIsolationWitness ==
    /\ dl_pc = "returned"
    /\ Len(dl_books) = 3
    /\ dl_books[1].kind = "raises"
    /\ dl_books[2].kind = "fetch_ok"
    /\ dl_books[3].kind = "fetch_fail"
    /\ task_result[1] = ExceptionResult
    /\ dl_result = <<[kind |-> "fetch_ok", cover_url |-> 2,
                      cover_path |-> CachePath(2)]>>

\* Number of image files in the directory of the local source.
ImageFileCount ==
    Cardinality({i \in 1..Len(src_input) : IsImageFile(src_input[i])})

\* Number of rows of the CSV file on the read shelf.
ReadRowCount ==
    Cardinality({i \in 1..Len(src_input) : src_input[i].shelf \in {"read", "Read"}})

\* C21: get_books(limit) returns at most limit books for every source; the
\* local source returns exactly min(limit, number of image files) books in
\* ascending file-name order, each with the path of an image file of the
\* directory; the CSV source returns exactly min(limit, number of read rows).
AtMostLimit ==
    src_pc = "returned" =>
       /\ Len(src_result) <= src_limit
       /\ src_kind = "local" =>
             /\ Len(src_result) = Min(src_limit, ImageFileCount)
             /\ \A i, j \in 1..Len(src_result) :
                   i < j => src_result[i].cover_path < src_result[j].cover_path
             /\ \A i \in 1..Len(src_result) :
                   \E k \in 1..Len(src_input) :
                      /\ src_input[k].name = src_result[i].cover_path
                      /\ IsImageFile(src_input[k])
       /\ src_kind = "csv" =>
             Len(src_result) = Min(src_limit, ReadRowCount)

\* The date a row of the CSV file was read; 0 when the row has no date that
\* can be parsed.
DateOfRow(title) == ParseDate(src_input[title].date_read)

\* The rows of the CSV file that the call returned.
ReturnedRows == {src_result[i].title : i \in 1..Len(src_result)}

\* C22: the CSV source returns only rows of the read shelf (in any letter
\* case, never to-read or currently-reading), each once, ordered from the
\* most recent Date Read to the oldest with the undated rows last; the limit
\* is applied after the ordering: no row left out is more recent than a row
\* returned, and for a limit >= 0 min(limit, read rows) rows are returned.
ReadShelfByDate ==
    (src_pc = "returned" /\ src_kind = "csv" /\ src_exists) =>
       /\ \A i \in 1..Len(src_result) :
             /\ src_result[i].title \in 1..Len(src_input)
             /\ src_input[src_result[i].title].shelf \in {"read", "Read"}
       /\ \A i, j \in 1..Len(src_result) :
             i < j =>
                /\ src_result[i].title # src_result[j].title
                /\ DateOfRow(src_result[i].title) >=
                      DateOfRow(src_result[j].title)
       /\ \A t \in ReturnedRows :
             \A x \in 1..Len(src_input) :
                (x \notin ReturnedRows /\ src_input[x].shelf \in {"read", "Read"})
                   => DateOfRow(x) <= DateOfRow(t)
       /\ src_limit >= 0 => Len(src_result) = Min(src_limit, ReadRowCount)

\* A call with limit 2 on a file whose three read rows are in ascending date
\* order, the undated one first, has returned the two dated rows, most
\* recent first.
ReadShelfWitness ==
    /\ src_pc = "returned"
    /\ src_kind = "csv"
    /\ src_limit = 2
    /\ Len(src_input) = 3
    /\ src_input[1].shelf = "read" /\ src_input[1].date_read = ""
    /\ src_input[2].shelf = "Read" /\ src_input[2].date_read = "2023-06-01"
    /\ src_input[3].shelf = "read" /\ src_input[3].date_read = "2024/01/15"
    /\ src_result = <<[title |-> 3], [title |-> 2]>>

\* google_books + open_library_books
all_books == src_input \o src_second

\* Two search results have the same lower-cased, stripped title and author:
\* "Dune" by "Herbert" and " dune" by "HERBERT " are the same work.
SameTitleAuthor(a, b) ==
    \/ a.title = b.title /\ a.author = b.author
    \/ {<<a.title, a.author>>, <<b.title, b.author>>} =
          {<<"Dune", "Herbert">>, <<" dune", "HERBERT ">>}

\* Two search results are duplicates of each other.
Duplicates(a, b) ==
    \/ a.isbn # 0 /\ a.isbn = b.isbn
    \/ SameTitleAuthor(a, b)

\* Position of the first occurrence of a book in all_books.
FirstIndex(b) ==
    CHOOSE p \in 1..Len(all_books) :
       all_books[p] = b /\ \A q \in 1..(p - 1) : all_books[q] # b

CroppedWidth == crop_box[3] - crop_box[1]
CroppedHeight == crop_box[4] - crop_box[2]

\* The image is wider than the target ratio.
TooWideImage == crop_size[1] * crop_ratio[2] > crop_size[2] * crop_ratio[1]

\* The crop keeps the box inside the image, cuts one dimension only and cuts
\* it equally (to the pixel) on both sides: a wider image keeps its height,
\* any other image keeps its width.
CropsLongerDimension ==
    /\ crop_box[1] >= 0 /\ crop_box[2] >= 0
    /\ crop_box[3] <= crop_size[1] /\ crop_box[4] <= crop_size[2]
    /\ IF TooWideImage
       THEN /\ CroppedHeight = crop_size[2]
            /\ (crop_size[1] - crop_box[3]) - crop_box[1] \in {0, 1}
       ELSE /\ CroppedWidth = crop_size[1]
            /\ (crop_size[2] - crop_box[4]) - crop_box[2] \in {0, 1}

CoversInColumn(c) == Cardinality({i \in 1..Len(assigned) : assigned[i] = c})

\* C25: for every call with at least one cover, every returned placement
\* ends, with the gap below it, at or above the canvas bottom
\* (y + h + gap <= height), and no column holds more than
\* ceil(count / num_columns) covers.
NoVerticalOverflow ==
    Placed =>
       /\ \A i \in 1..Len(result) :
             result[i].y + result[i].h + gap <= height
       /\ \A c \in 0..(num_columns - 1) :
             CoversInColumn(c) * num_columns
                <= Len(result) + num_columns - 1

\* Two placements are apart by at least the gap, horizontally or vertically.
Separated(p, q) ==
    \/ p.x + p.w + gap <= q.x
    \/ q.x + q.w + gap <= p.x
    \/ p.y + p.h + gap <= q.y
    \/ q.y + q.h + gap <= p.y

\* C26: in a layout with a positive cell size any two placements are
\* disjoint and at least gap pixels apart: two covers in different columns
\* differ in x by a non-zero multiple of cover_width + gap, two covers in
\* the same column differ in y by a non-zero multiple of cover_height + gap.
NoOverlap ==
    (Placed /\ cover_width > 0 /\ cover_height > 0) =>
       \A i, j \in 1..Len(result) :
          i < j =>
             /\ Separated(result[i], result[j])
             /\ IF assigned[i] # assigned[j]
                THEN /\ result[i].x # result[j].x
                     /\ (result[j].x - result[i].x) % (cover_width + gap) = 0
                ELSE /\ result[i].x = result[j].x
                     /\ result[j].y > result[i].y
                     /\ (result[j].y - result[i].y) % (cover_height + gap) = 0

\* A layout with a gap and positive cells in which some column holds three
\* covers and there are at least three columns.
NoOverlapWitness ==
    /\ Placed
    /\ gap > 0
    /\ cover_width > 0
    /\ cover_height > 0
    /\ num_columns >= 3
    /\ \E i, j, k \in 1..Len(result) :
          /\ i < j /\ j < k
          /\ assigned[i] = assigned[j] /\ assigned[j] = assigned[k]
    /\ \E i, j \in 1..Len(result) : assigned[i] + 2 <= assigned[j]

====
